---- MODULE Spec2Model ----
(***************************************************************************)
(* Backtracking grid solvers of the repository:                            *)
(*   solve_grid.py    5x5, centre (2,2)=13, C1, C2, C3        (find one)   *)
(*   4_solve_grid.py  5x5, C1, C2, C3, C4 (median of row 0)   (find one)   *)
(*   5_solve_grid.py  6x6, (0,0)=1, C1, C5 (rook)             (find one)   *)
(*   6_solve_grid.py  5x5, C1 only, forward checking          (count all)  *)
(* The recursion of solve_grid / solve_grid_count is an explicit stack of  *)
(* activation frames; grid and used are the two shared mutable objects.    *)
(* One step is one piece of a call between two writes of grid/used.        *)
(***************************************************************************)
EXTENDS Integers, Sequences, FiniteSets

VARIABLES prog, SIZE, grid, used, stack, pc, ret, retFrame

vars == <<prog, SIZE, grid, used, stack, pc, ret, retFrame>>

\* ------------------------------------------------------------------------
\* Program constants
\* ------------------------------------------------------------------------
P3 == "solve_grid"
P4 == "4_solve_grid"
P5 == "5_solve_grid"
P6 == "6_solve_grid"

SIZE_3 == 5
SIZE_4 == 5
SIZE_5 == 6

\* 6_solve_grid.py is compiled for SIZE = 5; counting every filling of a
\* 5x5 grid is out of reach of exhaustive exploration, so the counter is run
\* for every SIZE in 1..MaxCountSize.
MaxCountSize == 3

CENTER_ROW == 2
CENTER_COL == 2
CENTER_VALUE == 13

FIXED_ROW == 0
FIXED_COL == 0
FIXED_VALUE == 1

SPECIAL_NUMBERS == {1, 12, 24, 36}

\* identical in solve_grid.py and 4_solve_grid.py
PRIME_POSITIONS ==
    << <<0, 1>>, <<0, 3>>,
       <<1, 0>>, <<1, 2>>,
       <<2, 1>>, <<2, 3>>,
       <<3, 0>>, <<3, 2>>,
       <<4, 1>>, <<4, 3>> >>

\* check_c4: sorted_row[2] == 14 (0-indexed position 2)
C4_INDEX == 2
C4_TARGET == 14

\* forward_check_improved(..., depth=2)
FC_DEPTH == 2

TOTAL_CELLS == SIZE * SIZE

Cells(n) == (0 .. n - 1) \X (0 .. n - 1)

FindOne == {P3, P4, P5}

\* ------------------------------------------------------------------------
\* Pure helpers
\* ------------------------------------------------------------------------
Abs(x) == IF x < 0 THEN -x ELSE x

InGrid(p) == 0 <= p[1] /\ p[1] < SIZE /\ 0 <= p[2] /\ p[2] < SIZE

ORTHO_DELTAS == << <<-1, 0>>, <<1, 0>>, <<0, -1>>, <<0, 1>> >>
DIAG_DELTAS == << <<-1, -1>>, <<-1, 1>>, <<1, -1>>, <<1, 1>> >>

Shifted(row, col, deltas) ==
    [i \in 1 .. Len(deltas) |-> <<row + deltas[i][1], col + deltas[i][2]>>]

get_orthogonal_neighbors(row, col) ==
    SelectSeq(Shifted(row, col, ORTHO_DELTAS), InGrid)

get_diagonal_neighbors(row, col) ==
    SelectSeq(Shifted(row, col, DIAG_DELTAS), InGrid)

\* NEIGHBORS[row][col] of 6_solve_grid.py: up, down, left, right when present
NEIGHBORS(row, col) ==
    (IF row > 0 THEN << <<row - 1, col>> >> ELSE << >>) \o
    (IF row < SIZE - 1 THEN << <<row + 1, col>> >> ELSE << >>) \o
    (IF col > 0 THEN << <<row, col - 1>> >> ELSE << >>) \o
    (IF col < SIZE - 1 THEN << <<row, col + 1>> >> ELSE << >>)

violates_c1(g, row, col, value) ==
    LET nb == get_orthogonal_neighbors(row, col)
    IN  \E i \in 1 .. Len(nb) : g[nb[i]] # 0 /\ Abs(g[nb[i]] - value) = 1

\* mutant: the diagonal test walks the orthogonal neighbours
violates_c2_Orthogonal(g, row, col, value) ==
    LET nb == get_orthogonal_neighbors(row, col)
    IN  \E i \in 1 .. Len(nb) : g[nb[i]] # 0 /\ Abs(g[nb[i]] - value) = 2

violates_c2(g, row, col, value) ==
    LET nb == get_diagonal_neighbors(row, col)
    IN  \E i \in 1 .. Len(nb) : g[nb[i]] # 0 /\ Abs(g[nb[i]] - value) = 2

\* mutant: the column loop is missing
violates_c5_RowOnly(g, row, col, value) ==
    /\ value \in SPECIAL_NUMBERS
    /\ \E c \in 0 .. SIZE - 1 :
            c # col /\ g[<<row, c>>] # 0 /\ g[<<row, c>>] \in SPECIAL_NUMBERS

violates_c5(g, row, col, value) ==
    /\ value \in SPECIAL_NUMBERS
    /\ \/ \E c \in 0 .. SIZE - 1 :
            c # col /\ g[<<row, c>>] # 0 /\ g[<<row, c>>] \in SPECIAL_NUMBERS
       \/ \E r \in 0 .. SIZE - 1 :
            r # row /\ g[<<r, col>>] # 0 /\ g[<<r, col>>] \in SPECIAL_NUMBERS

RECURSIVE SumAt(_, _, _)
SumAt(g, ps, i) == IF i > Len(ps) THEN 0 ELSE g[ps[i]] + SumAt(g, ps, i + 1)

AllPrimeFilled(g) == \A i \in 1 .. Len(PRIME_POSITIONS) : g[PRIME_POSITIONS[i]] # 0

\* mutant: the loop stops one position short of the end of PRIME_POSITIONS
check_c3_SkipLast(g) ==
    IF \E i \in 1 .. Len(PRIME_POSITIONS) - 1 : g[PRIME_POSITIONS[i]] = 0
    THEN TRUE
    ELSE SumAt(g, SubSeq(PRIME_POSITIONS, 1, Len(PRIME_POSITIONS) - 1), 1) % 2 = 0

check_c3(g) ==
    IF \E i \in 1 .. Len(PRIME_POSITIONS) : g[PRIME_POSITIONS[i]] = 0
    THEN TRUE
    ELSE SumAt(g, PRIME_POSITIONS, 1) % 2 = 0

\* sorted(): insertion into an ascending sequence
RECURSIVE Insert(_, _)
Insert(s, x) ==
    IF s = << >> THEN <<x>>
    ELSE IF x <= Head(s) THEN <<x>> \o s
    ELSE <<Head(s)>> \o Insert(Tail(s), x)

RECURSIVE Sorted(_)
Sorted(s) == IF s = << >> THEN << >> ELSE Insert(Sorted(Tail(s)), Head(s))

TopRow(g) == [i \in 1 .. SIZE |-> g[<<0, i - 1>>]]

TopRowFilled(g) == \A c \in 0 .. SIZE - 1 : g[<<0, c>>] # 0

\* mutant: the last element of the sorted row is compared with the target
check_c4_LastElement(g) ==
    IF \E i \in 1 .. SIZE : TopRow(g)[i] = 0
    THEN TRUE
    ELSE Sorted(TopRow(g))[SIZE] = C4_TARGET

check_c4(g) ==
    IF \E i \in 1 .. SIZE : TopRow(g)[i] = 0
    THEN TRUE
    ELSE Sorted(TopRow(g))[C4_INDEX + 1] = C4_TARGET

\* is_valid_placement of solve_grid.py and 4_solve_grid.py
is_valid_placement(g, row, col, value) ==
    /\ ~violates_c1(g, row, col, value)
    /\ ~violates_c2(g, row, col, value)

\* is_valid_placement of 5_solve_grid.py
is_valid_placement_5(g, row, col, value) ==
    /\ ~violates_c1(g, row, col, value)
    /\ ~violates_c5(g, row, col, value)

\* mutant: the wrap to the next row comes one column early
get_next_position_SkipsLastColumn(row, col) ==
    IF col < SIZE - 2 THEN <<row, col + 1>> ELSE <<row + 1, 0>>

get_next_position(row, col) ==
    IF col < SIZE - 1 THEN <<row, col + 1>> ELSE <<row + 1, 0>>


\* forbidden set built from the placed neighbours (6_solve_grid.py)
Forbidden(g, row, col) ==
    LET nb == NEIGHBORS(row, col)
        filled == {i \in 1 .. Len(nb) : g[nb[i]] # 0}
    IN  {g[nb[i]] - 1 : i \in {j \in filled : g[nb[j]] > 1}} \cup
        {g[nb[i]] + 1 : i \in {j \in filled : g[nb[j]] < TOTAL_CELLS}}

\* mutant: the early exit taken without testing that used and forbidden are disjoint
has_valid_placement_fast_NoOverlapTest(g, u, row, col) ==
    LET forbidden == Forbidden(g, row, col)
    IN  IF Cardinality(u) + Cardinality(forbidden) >= TOTAL_CELLS
        THEN FALSE
        ELSE \E value \in 1 .. TOTAL_CELLS : value \notin u /\ value \notin forbidden

has_valid_placement_fast(g, u, row, col) ==
    LET forbidden == Forbidden(g, row, col)
    IN  IF /\ Cardinality(u) + Cardinality(forbidden) >= TOTAL_CELLS
           /\ u \cap forbidden = {}
        THEN FALSE
        ELSE \E value \in 1 .. TOTAL_CELLS : value \notin u /\ value \notin forbidden

RECURSIVE forward_check_improved(_, _, _, _, _)
forward_check_improved(g, u, row, col, depth) ==
    IF depth = 0 THEN TRUE
    ELSE LET p == get_next_position(row, col)
         IN  IF p[1] >= SIZE THEN TRUE
             ELSE IF ~has_valid_placement_fast(g, u, p[1], p[2]) THEN FALSE
             ELSE forward_check_improved(g, u, p[1], p[2], depth - 1)

\* valid_values: the unused, not forbidden values in ascending order
RECURSIVE ValidFrom(_, _, _)
ValidFrom(value, u, forbidden) ==
    IF value > TOTAL_CELLS THEN << >>
    ELSE (IF value \notin u /\ value \notin forbidden THEN <<value>> ELSE << >>)
         \o ValidFrom(value + 1, u, forbidden)

valid_values(g, u, row, col) == ValidFrom(1, u, Forbidden(g, row, col))

\* mutant: the test `value in used` is missing
Candidate_NoUsedTest(g, u, row, col, value) ==
    IF prog = P5 THEN is_valid_placement_5(g, row, col, value)
                 ELSE is_valid_placement(g, row, col, value)

\* the two `continue` tests at the head of the for loop of solve_grid
Candidate(g, u, row, col, value) ==
    /\ value \notin u
    /\ IF prog = P5 THEN is_valid_placement_5(g, row, col, value)
                    ELSE is_valid_placement(g, row, col, value)

\* mutant: the values are walked from the largest down
NextValue_Descending(g, u, row, col, after) ==
    LET top == IF after = 0 THEN TOTAL_CELLS + 1 ELSE after
        cand == {v \in 1 .. top - 1 : Candidate(g, u, row, col, v)}
    IN  IF cand = {} THEN 0 ELSE CHOOSE v \in cand : \A w \in cand : v >= w

\* for value in range(1, TOTAL_CELLS + 1): the first value after `after` that
\* passes both tests, 0 when the range is exhausted
NextValue(g, u, row, col, after) ==
    LET cand == {v \in after + 1 .. TOTAL_CELLS : Candidate(g, u, row, col, v)}
    IN  IF cand = {} THEN 0 ELSE CHOOSE v \in cand : \A w \in cand : v <= w

\* mutant: used.add(value) is missing
place_used_Forgotten(u, value) == u

\* grid[row][col] = value ; used.add(value)
place_grid(g, row, col, value) == [g EXCEPT ![<<row, col>>] = value]
place_used(u, value) == u \cup {value}

\* mutant: the cell is not cleared on backtrack
unplace_grid_Forgotten(g, row, col) == g

\* mutant: used.remove(value) is missing
unplace_used_Forgotten(u, value) == u

\* grid[row][col] = 0 ; used.remove(value)
unplace_grid(g, row, col) == [g EXCEPT ![<<row, col>>] = 0]
unplace_used(u, value) == u \ {value}

\* the early checks after a placement (solve_grid.py 151-156, 4_solve_grid.py 119-130)
EarlyC3Fails(g) == AllPrimeFilled(g) /\ ~check_c3(g)
EarlyC4Fails(g, row) == row = 0 /\ TopRowFilled(g) /\ ~check_c4(g)

\* mutant: the early C3 check is missing, C3 is tested at the base case only
EarlyFails_NoEarlyC3(g, row) ==
    prog = P4 /\ EarlyC4Fails(g, row)

EarlyFails(g, row) ==
    \/ prog \in {P3, P4} /\ EarlyC3Fails(g)
    \/ prog = P4 /\ EarlyC4Fails(g, row)

\* the skipped, pre-placed cell
IsFixedCell(row, col) ==
    \/ prog = P3 /\ row = CENTER_ROW /\ col = CENTER_COL
    \/ prog = P5 /\ row = FIXED_ROW /\ col = FIXED_COL

\* value returned by the base case row >= SIZE
BaseResult(g) ==
    CASE prog = P3 -> check_c3(g)
      [] prog = P4 -> check_c3(g) /\ check_c4(g)
      [] prog = P5 -> TRUE
      [] prog = P6 -> 1

\* ------------------------------------------------------------------------
\* Activation frames.  grid0/used0 record the arguments as they were when
\* the call was entered, prev the value the loop had placed before `value`.
\* ------------------------------------------------------------------------
Frame(row, col, g, u) ==
    [row |-> row, col |-> col, value |-> 0, prev |-> 0, count |-> 0, skip |-> FALSE,
     valid |-> << >>, idx |-> 0, grid0 |-> g, used0 |-> u]

NoFrame == Frame(0, 0, << >>, {})

Top == stack[Len(stack)]
Caller == SubSeq(stack, 1, Len(stack) - 1)
SetTop(f) == [stack EXCEPT ![Len(stack)] = f]

\* return v from the active call
Return(v) ==
    /\ ret' = v
    /\ retFrame' = Top
    /\ stack' = Caller
    /\ pc' = IF Len(stack) = 1 THEN "done" ELSE "returned"

\* ------------------------------------------------------------------------
\* Initial states: main() of each program, up to the call
\* solve_grid(grid, used, 0, 0) / solve_grid_count(grid, used, 0, 0).
\* ------------------------------------------------------------------------
EmptyGrid(n) == [p \in Cells(n) |-> 0]

\* 5_solve_grid.py is run for its own SIZE and for every smaller one, which
\* gives grids with and without a solution.
Configs ==
    {<<P3, SIZE_3>>, <<P4, SIZE_4>>}
    \cup {<<P5, n>> : n \in 1 .. SIZE_5}
    \cup {<<P6, n>> : n \in 1 .. MaxCountSize}

InitialGrid(p, n) ==
    CASE p = P3 -> [EmptyGrid(n) EXCEPT ![<<CENTER_ROW, CENTER_COL>>] = CENTER_VALUE]
      [] p = P5 -> [EmptyGrid(n) EXCEPT ![<<FIXED_ROW, FIXED_COL>>] = FIXED_VALUE]
      [] OTHER -> EmptyGrid(n)

InitialUsed(p) ==
    CASE p = P3 -> {CENTER_VALUE}
      [] p = P5 -> {FIXED_VALUE}
      [] OTHER -> {}

InitWith(cfgs) ==
    \E cfg \in cfgs :
        /\ prog = cfg[1]
        /\ SIZE = cfg[2]
        /\ grid = InitialGrid(cfg[1], cfg[2])
        /\ used = InitialUsed(cfg[1])
        /\ stack = <<Frame(0, 0, InitialGrid(cfg[1], cfg[2]), InitialUsed(cfg[1]))>>
        /\ pc = "enter"
        /\ ret = IF cfg[1] = P6 THEN 0 ELSE FALSE
        /\ retFrame = NoFrame

Init == InitWith(Configs)
InitFind == InitWith({cfg \in Configs : cfg[1] \in FindOne})
InitCount == InitWith({cfg \in Configs : cfg[1] = P6})

\* ------------------------------------------------------------------------
\* Steps shared by the four solvers
\* ------------------------------------------------------------------------

\* if row >= SIZE: return ...
BaseCase ==
    /\ pc = "enter"
    /\ Top.row >= SIZE
    /\ Return(BaseResult(grid))
    /\ UNCHANGED <<prog, SIZE, grid, used>>

\* the pre-placed cell is skipped: return solve_grid(grid, used, next_row, next_col)
SkipFixed ==
    /\ pc = "enter"
    /\ Top.row < SIZE
    /\ IsFixedCell(Top.row, Top.col)
    /\ LET nxt == get_next_position(Top.row, Top.col)
       IN  stack' = Append(SetTop([Top EXCEPT !.skip = TRUE]),
                           Frame(nxt[1], nxt[2], grid, used))
    /\ UNCHANGED <<prog, SIZE, grid, used, pc, ret, retFrame>>

\* ... and its result is returned unchanged
ReturnSkip ==
    /\ pc = "returned"
    /\ Top.skip
    /\ Return(ret)
    /\ UNCHANGED <<prog, SIZE, grid, used>>

\* ------------------------------------------------------------------------
\* Find-one: solve_grid of solve_grid.py, 4_solve_grid.py, 5_solve_grid.py
\* ------------------------------------------------------------------------
BeginLoop ==
    /\ prog \in FindOne
    /\ pc = "enter"
    /\ Top.row < SIZE
    /\ ~IsFixedCell(Top.row, Top.col)
    /\ pc' = "loop"
    /\ UNCHANGED <<prog, SIZE, grid, used, stack, ret, retFrame>>

\* the next value of the for loop that is unused and valid is placed
Place ==
    /\ prog \in FindOne
    /\ pc = "loop"
    /\ LET v == NextValue(grid, used, Top.row, Top.col, Top.value)
       IN  /\ v # 0
           /\ grid' = place_grid(grid, Top.row, Top.col, v)
           /\ used' = place_used(used, v)
           /\ stack' = SetTop([Top EXCEPT !.value = v, !.prev = Top.value])
    /\ pc' = "placed"
    /\ UNCHANGED <<prog, SIZE, ret, retFrame>>

\* the for loop ends: return False
LoopExhausted ==
    /\ prog \in FindOne
    /\ pc = "loop"
    /\ NextValue(grid, used, Top.row, Top.col, Top.value) = 0
    /\ Return(FALSE)
    /\ UNCHANGED <<prog, SIZE, grid, used>>

\* early C3 / C4 check fails: unplace and continue with the next value
EarlyPrune ==
    /\ prog \in FindOne
    /\ pc = "placed"
    /\ EarlyFails(grid, Top.row)
    /\ grid' = unplace_grid(grid, Top.row, Top.col)
    /\ used' = unplace_used(used, Top.value)
    /\ pc' = "loop"
    /\ UNCHANGED <<prog, SIZE, stack, ret, retFrame>>

\* solve_grid(grid, used, next_row, next_col)
Recurse ==
    /\ prog \in FindOne
    /\ pc = "placed"
    /\ ~EarlyFails(grid, Top.row)
    /\ LET nxt == get_next_position(Top.row, Top.col)
       IN  stack' = Append(stack, Frame(nxt[1], nxt[2], grid, used))
    /\ pc' = "enter"
    /\ UNCHANGED <<prog, SIZE, grid, used, ret, retFrame>>

\* if solve_grid(...): return True
ReturnTrue ==
    /\ prog \in FindOne
    /\ pc = "returned"
    /\ ~Top.skip
    /\ ret = TRUE
    /\ Return(TRUE)
    /\ UNCHANGED <<prog, SIZE, grid, used>>

\* the branch failed: grid[row][col] = 0 ; used.remove(value)
Backtrack ==
    /\ prog \in FindOne
    /\ pc = "returned"
    /\ ~Top.skip
    /\ ret = FALSE
    /\ grid' = unplace_grid(grid, Top.row, Top.col)
    /\ used' = unplace_used(used, Top.value)
    /\ pc' = "loop"
    /\ UNCHANGED <<prog, SIZE, stack, ret, retFrame>>

\* ------------------------------------------------------------------------
\* Count-all: solve_grid_count of 6_solve_grid.py
\* ------------------------------------------------------------------------

\* valid_values is collected; if not valid_values: return 0; else the loop starts
CountBegin ==
    /\ prog = P6
    /\ pc = "enter"
    /\ Top.row < SIZE
    /\ LET vv == valid_values(grid, used, Top.row, Top.col)
       IN  IF vv = << >>
           THEN /\ Return(0)
           ELSE /\ stack' = SetTop([Top EXCEPT !.valid = vv])
                /\ pc' = "loop"
                /\ UNCHANGED <<ret, retFrame>>
    /\ UNCHANGED <<prog, SIZE, grid, used>>

\* for value in valid_values: place it
CountPlace ==
    /\ prog = P6
    /\ pc = "loop"
    /\ Top.idx < Len(Top.valid)
    /\ LET v == Top.valid[Top.idx + 1]
       IN  /\ grid' = place_grid(grid, Top.row, Top.col, v)
           /\ used' = place_used(used, v)
           /\ stack' = SetTop([Top EXCEPT !.value = v, !.prev = Top.value, !.idx = @ + 1])
    /\ pc' = "placed"
    /\ UNCHANGED <<prog, SIZE, ret, retFrame>>

\* last cell: count += 1, then unplace
CountLeaf ==
    /\ prog = P6
    /\ pc = "placed"
    /\ get_next_position(Top.row, Top.col)[1] >= SIZE
    /\ stack' = SetTop([Top EXCEPT !.count = @ + 1])
    /\ grid' = unplace_grid(grid, Top.row, Top.col)
    /\ used' = unplace_used(used, Top.value)
    /\ pc' = "loop"
    /\ UNCHANGED <<prog, SIZE, ret, retFrame>>

\* forward check fails: unplace without recursing
ForwardPrune ==
    /\ prog = P6
    /\ pc = "placed"
    /\ get_next_position(Top.row, Top.col)[1] < SIZE
    /\ ~forward_check_improved(grid, used, Top.row, Top.col, FC_DEPTH)
    /\ grid' = unplace_grid(grid, Top.row, Top.col)
    /\ used' = unplace_used(used, Top.value)
    /\ pc' = "loop"
    /\ UNCHANGED <<prog, SIZE, stack, ret, retFrame>>

\* solve_grid_count(grid, used, next_row, next_col)
CountRecurse ==
    /\ prog = P6
    /\ pc = "placed"
    /\ get_next_position(Top.row, Top.col)[1] < SIZE
    /\ forward_check_improved(grid, used, Top.row, Top.col, FC_DEPTH)
    /\ LET nxt == get_next_position(Top.row, Top.col)
       IN  stack' = Append(stack, Frame(nxt[1], nxt[2], grid, used))
    /\ pc' = "enter"
    /\ UNCHANGED <<prog, SIZE, grid, used, ret, retFrame>>

\* count += <result of the call>, then unplace
Accumulate ==
    /\ prog = P6
    /\ pc = "returned"
    /\ stack' = SetTop([Top EXCEPT !.count = @ + ret])
    /\ grid' = unplace_grid(grid, Top.row, Top.col)
    /\ used' = unplace_used(used, Top.value)
    /\ pc' = "loop"
    /\ UNCHANGED <<prog, SIZE, ret, retFrame>>

\* return count
CountReturn ==
    /\ prog = P6
    /\ pc = "loop"
    /\ Top.idx >= Len(Top.valid)
    /\ Return(Top.count)
    /\ UNCHANGED <<prog, SIZE, grid, used>>

NextFind ==
    \/ BaseCase
    \/ SkipFixed
    \/ ReturnSkip
    \/ BeginLoop
    \/ Place
    \/ LoopExhausted
    \/ EarlyPrune
    \/ Recurse
    \/ ReturnTrue
    \/ Backtrack

NextCount ==
    \/ CountBegin
    \/ CountPlace
    \/ CountLeaf
    \/ ForwardPrune
    \/ CountRecurse
    \/ Accumulate
    \/ CountReturn

Next == NextFind \/ NextCount

Spec == Init /\ [][Next]_vars
SpecFind == InitFind /\ [][NextFind]_vars
SpecCount == InitCount /\ [][NextCount]_vars

\* ------------------------------------------------------------------------
\* What a solution is, stated on the grid alone
\* ------------------------------------------------------------------------
Adjacent(p, q) == Abs(p[1] - q[1]) + Abs(p[2] - q[2]) = 1
DiagAdjacent(p, q) == Abs(p[1] - q[1]) = 1 /\ Abs(p[2] - q[2]) = 1

AssignedValues(g) == {g[p] : p \in DOMAIN g} \ {0}

NoDuplicate(g) ==
    \A p, q \in DOMAIN g : (p # q /\ g[p] # 0) => g[p] # g[q]

IsFull(g) ==
    /\ \A p \in DOMAIN g : g[p] # 0
    /\ NoDuplicate(g)
    /\ AssignedValues(g) = 1 .. Cardinality(DOMAIN g)

NoOrthoConsecutive(g) ==
    \A p, q \in DOMAIN g :
        (Adjacent(p, q) /\ g[p] # 0 /\ g[q] # 0) => Abs(g[p] - g[q]) # 1

NoDiagTwo(g) ==
    \A p, q \in DOMAIN g :
        (DiagAdjacent(p, q) /\ g[p] # 0 /\ g[q] # 0) => Abs(g[p] - g[q]) # 2

PrimeCells == {PRIME_POSITIONS[i] : i \in 1 .. Len(PRIME_POSITIONS)}

PrimeSumOdd(g) ==
    Cardinality({p \in PrimeCells : g[p] % 2 = 1}) % 2 = 1

RookOk(g) ==
    \A p, q \in DOMAIN g :
        (p # q /\ g[p] \in SPECIAL_NUMBERS /\ g[q] \in SPECIAL_NUMBERS)
            => (p[1] # q[1] /\ p[2] # q[2])

\* the k-th smallest value of the (full) top row, k counted from 1
TopRowValues(g) == {g[p] : p \in {q \in DOMAIN g : q[1] = 0}}
OrderStatistic(g, k) ==
    CHOOSE x \in TopRowValues(g) :
        Cardinality({y \in TopRowValues(g) : y <= x}) = k

IsSolution(p, g) ==
    /\ IsFull(g)
    /\ NoOrthoConsecutive(g)
    /\ p \in {P3, P4} => NoDiagTwo(g) /\ ~PrimeSumOdd(g)
    /\ p = P3 => g[<<CENTER_ROW, CENTER_COL>>] = CENTER_VALUE
    /\ p = P4 => OrderStatistic(g, C4_INDEX + 1) = C4_TARGET
    /\ p = P5 => g[<<FIXED_ROW, FIXED_COL>>] = FIXED_VALUE /\ RookOk(g)

Finished == pc = "done"
FoundOne == pc = "done" /\ prog \in FindOne /\ ret = TRUE
FoundNone == pc = "done" /\ prog \in FindOne /\ ret = FALSE

\* ------------------------------------------------------------------------
\* Reference enumeration of the solutions of a variant.  A grid is read in
\* row-major order as a sequence; a prefix of it stands for the grid whose
\* first cells are assigned.
\* ------------------------------------------------------------------------
RowMajor(n) == [i \in 1 .. n * n |-> <<(i - 1) \div n, (i - 1) % n>>]
Flat(g, n) == [i \in 1 .. n * n |-> g[RowMajor(n)[i]]]
Unflat(s, n) == [p \in Cells(n) |-> s[p[1] * n + p[2] + 1]]

\* the pairs <<i, j>>, i < j, of row-major indices of orthogonally / diagonally
\* adjacent cells, and the indices of the prime positions
Geometry(n) ==
    [n |-> n,
     ortho |-> {ij \in (1 .. n * n) \X (1 .. n * n) :
                  ij[1] < ij[2] /\ Adjacent(RowMajor(n)[ij[1]], RowMajor(n)[ij[2]])},
     diag |-> {ij \in (1 .. n * n) \X (1 .. n * n) :
                  ij[1] < ij[2] /\ DiagAdjacent(RowMajor(n)[ij[1]], RowMajor(n)[ij[2]])},
     prime |-> {q[1] * n + q[2] + 1 : q \in PrimeCells}]

\* every constraint of variant p whose cells all lie in the prefix s holds.
\* A prefix that fails has no extension that is a solution.
PrefixOk(p, s, geo) ==
    LET len == Len(s)
        special == {i \in 1 .. len : s[i] \in SPECIAL_NUMBERS}
    IN  /\ \A ij \in geo.ortho : ij[2] <= len => Abs(s[ij[1]] - s[ij[2]]) # 1
        /\ p \in {P3, P4} =>
              \A ij \in geo.diag : ij[2] <= len => Abs(s[ij[1]] - s[ij[2]]) # 2
        /\ (p \in {P3, P4} /\ \A k \in geo.prime : k <= len) =>
              Cardinality({k \in geo.prime : s[k] % 2 = 1}) % 2 = 0
        /\ (p = P4 /\ len >= geo.n) =>
              /\ \E k \in 1 .. geo.n : s[k] = C4_TARGET
              /\ Cardinality({k \in 1 .. geo.n : s[k] < C4_TARGET}) = C4_INDEX
        /\ p = P5 =>
              \A i, j \in special :
                 i < j => /\ (i - 1) \div geo.n # (j - 1) \div geo.n
                          /\ (i - 1) % geo.n # (j - 1) % geo.n

\* every sequence that extends s to the length of s0, keeps the non-zero
\* entries of s0, puts values of `free` (each at most once) where s0 is 0,
\* passes PrefixOk at every length and, when limit is not empty, does not
\* come after limit in lexicographic order
RECURSIVE Extensions(_, _, _, _, _, _)
Extensions(p, s, free, s0, limit, geo) ==
    IF ~PrefixOk(p, s, geo) THEN {}
    ELSE IF Len(s) = Len(s0) THEN {s}
    ELSE LET i == Len(s) + 1
             tight == limit # << >> /\ s = SubSeq(limit, 1, Len(s))
             vals == IF s0[i] # 0 THEN {s0[i]} ELSE free
             allowed == IF tight THEN {v \in vals : v <= limit[i]} ELSE vals
         IN  UNION {Extensions(p, Append(s, v), free \ {v}, s0, limit, geo) :
                        v \in allowed}

\* the completions of grid g that satisfy the constraints of variant p
CompletionSeqs(p, g, n, limit) ==
    Extensions(p, << >>, (1 .. n * n) \ AssignedValues(g), Flat(g, n), limit,
               Geometry(n))

\* all solutions of program p on the n x n grid
SolutionsOf(p, n) ==
    {h \in {Unflat(s, n) : s \in CompletionSeqs(p, InitialGrid(p, n), n, << >>)} :
        IsSolution(p, h)}

\* the solutions of program p that do not come after grid g in the order of
\* the search (row-major cells, ascending values)
SolutionsUpTo(p, n, g) ==
    {h \in {Unflat(s, n) : s \in CompletionSeqs(p, InitialGrid(p, n), n, Flat(g, n))} :
        IsSolution(p, h)}

\* the number of bijective fillings of the n x n grid without orthogonally
\* adjacent consecutive values
CountOfFillings(n) == Cardinality(CompletionSeqs(P6, EmptyGrid(n), n, << >>))

\* C1: whenever a find-one solver returns True from the top-level call, the
\* grid has no empty cell and holds every value of 1..N*N exactly once.
C1_ReturnedGridIsPermutation ==
    FoundOne => IsFull(grid) /\ AssignedValues(grid) = 1 .. SIZE * SIZE

C1_Witness ==
    FoundOne /\ prog = P3 /\ grid[<<CENTER_ROW, CENTER_COL>>] = CENTER_VALUE

\* C2: find-one is sound and complete.  A True result leaves a grid that is a
\* solution of the variant (so one exists); a False result means that no
\* bijective filling extending the pre-placed cells is a solution (decided by
\* enumeration); and a branch is cut by the early
\* C3 / C4 check only when the cells already placed make every completion fail.
EarlyCutIsSafe ==
    (prog \in FindOne /\ pc = "placed" /\ EarlyFails(grid, Top.row))
        => \/ (\A p \in PrimeCells : grid[p] # 0) /\ PrimeSumOdd(grid)
           \/ /\ prog = P4
              /\ \A c \in 0 .. SIZE - 1 : grid[<<0, c>>] # 0
              /\ OrderStatistic(grid, C4_INDEX + 1) # C4_TARGET

C2_SoundAndComplete ==
    /\ FoundOne => IsSolution(prog, grid)
    /\ FoundNone => SolutionsOf(prog, SIZE) = {}
    /\ EarlyCutIsSafe

C2_Witness ==
    FoundNone /\ prog = P5 /\ SIZE = 2 /\ grid[<<FIXED_ROW, FIXED_COL>>] = FIXED_VALUE

\* C3: the count returned by the top-level solve_grid_count equals the number
\* of bijective fillings without orthogonally adjacent consecutive values, and
\* a branch cut by the forward check has no such filling (so the count is that
\* of the search without forward checking).
ForwardCutIsSafe ==
    (/\ prog = P6
     /\ pc = "placed"
     /\ get_next_position(Top.row, Top.col)[1] < SIZE
     /\ ~forward_check_improved(grid, used, Top.row, Top.col, FC_DEPTH))
        => CompletionSeqs(P6, grid, SIZE, << >>) = {}

C3_CountIsExact ==
    /\ (Finished /\ prog = P6) => ret = CountOfFillings(SIZE)
    /\ ForwardCutIsSafe

C3_Witness ==
    Finished /\ prog = P6 /\ SIZE >= 3 /\ ret > 0

\* C4 as stated: whenever a call has returned, whatever it returned, grid and
\* used are as they were when the call was entered.
C4_RestoredOnEveryReturn ==
    pc \in {"returned", "done"}
        => grid = retFrame.grid0 /\ used = retFrame.used0

\* C4 amended: between two iterations of the loop of a call (after a branch
\* was cut early, failed, or was counted) grid and used are as at the call's
\* entry; a call that returns False or a count leaves grid and used as at its
\* entry; a find-one call that returns True leaves every cell assigned.
C4_RestoredUnlessFound ==
    /\ pc = "loop" => grid = Top.grid0 /\ used = Top.used0
    /\ (pc \in {"returned", "done"} /\ (prog = P6 \/ ret = FALSE))
          => grid = retFrame.grid0 /\ used = retFrame.used0
    /\ (pc \in {"returned", "done"} /\ prog \in FindOne /\ ret = TRUE)
          => \A p \in DOMAIN grid : grid[p] # 0

C4_Witness ==
    /\ pc = "returned"
    /\ prog \in FindOne
    /\ ret = FALSE
    /\ retFrame.value # 0
    /\ grid = retFrame.grid0

\* C5: in every state no value is held by two cells, and used is exactly the
\* set of non-zero values of the grid.
C5_UsedMatchesGrid ==
    /\ NoDuplicate(grid)
    /\ used = AssignedValues(grid)

\* a value is placed and the early C3 check is about to cut the branch
C5_Witness ==
    /\ prog = P3
    /\ pc = "placed"
    /\ EarlyFails(grid, Top.row)
    /\ Top.value \in used

\* C6: in every state of 5_solve_grid.py cell (0,0) holds 1, no two values of
\* {1, 12, 24, 36} share a row or a column, and no two orthogonally adjacent
\* assigned cells hold consecutive values.
C6_ScenarioB ==
    prog = P5
        => /\ grid[<<FIXED_ROW, FIXED_COL>>] = FIXED_VALUE
           /\ RookOk(grid)
           /\ NoOrthoConsecutive(grid)

C6_Witness ==
    /\ FoundOne
    /\ prog = P5
    /\ SIZE = SIZE_5
    /\ SPECIAL_NUMBERS \subseteq AssignedValues(grid)

\* C7: a grid for which solve_grid of solve_grid.py returns True has centre
\* 13, an even sum over PRIME_POSITIONS, no orthogonally adjacent pair
\* differing by 1 and no diagonally adjacent pair differing by 2.
C7_ScenarioC ==
    (FoundOne /\ prog = P3)
        => /\ grid[<<CENTER_ROW, CENTER_COL>>] = CENTER_VALUE
           /\ ~PrimeSumOdd(grid)
           /\ NoOrthoConsecutive(grid)
           /\ NoDiagTwo(grid)

C7_Witness ==
    /\ FoundOne
    /\ prog = P3
    /\ \A p \in PrimeCells : grid[p] # 0

\* row 0 is full and its early check, if any is due, has been passed
TopRowAccepted ==
    /\ prog = P4
    /\ \A c \in 0 .. SIZE - 1 : grid[<<0, c>>] # 0
    /\ ~(pc = "placed" /\ Top.row = 0)

\* C8 as stated: the search goes on past a full row 0, and returns a grid,
\* only if the N-th smallest value of row 0 (N = SIZE = 5) is 14.
C8_NthSmallestIsTarget ==
    TopRowAccepted => OrderStatistic(grid, SIZE) = C4_TARGET

\* C8 amended: ... only if the median of row 0, its 3rd smallest value
\* (sorted_row[2]), is 14.
C8_MedianIsTarget ==
    TopRowAccepted => OrderStatistic(grid, C4_INDEX + 1) = C4_TARGET

C8_Witness ==
    /\ FoundOne
    /\ prog = P4
    /\ OrderStatistic(grid, C4_INDEX + 1) = C4_TARGET

\* C9: the result is a function of the configuration.  In one call the values
\* placed at its cell only grow, and every value between two successive
\* placements is used or invalid; and the grid returned with True is the first
\* solution of the variant in the order of the search (row-major cells,
\* ascending values): it is the only solution that does not come after it.
\* Any two runs from the same configuration therefore return the same grid.
AscendingOrder ==
    (prog \in FindOne /\ pc = "placed")
        => /\ Top.value > Top.prev
           /\ \A w \in Top.prev + 1 .. Top.value - 1 :
                 \/ w \in used
                 \/ violates_c1(grid, Top.row, Top.col, w)
                 \/ prog # P5 /\ violates_c2(grid, Top.row, Top.col, w)
                 \/ prog = P5 /\ violates_c5(grid, Top.row, Top.col, w)

FirstSolution ==
    FoundOne => SolutionsUpTo(prog, SIZE, grid) = {grid}

C9_FirstInAscendingOrder == AscendingOrder /\ FirstSolution

\* the median row 1, 3, 14, 16, 18 was returned: rows before it in the order
\* of the search were tried and given up
C9_Witness ==
    /\ FoundOne
    /\ prog = P4
    /\ grid[<<0, 2>>] = C4_TARGET
    /\ grid[<<0, 1>>] < grid[<<0, 2>>]

\* C10: for SIZE = 1 the top-level solve_grid_count returns 1 and leaves the
\* grid and the used set empty.
C10_SingleCell ==
    (Finished /\ prog = P6 /\ SIZE = 1)
        => /\ ret = 1
           /\ grid = EmptyGrid(1)
           /\ used = {}

C10_Witness ==
    /\ Finished
    /\ prog = P6
    /\ SIZE = 1
    /\ retFrame.value = 1

\* ------------------------------------------------------------------------
\* Selection of the next cell
\* ------------------------------------------------------------------------
LinearIndex(c) == c[1] * SIZE + c[2]

\* the call just entered is about to assign its cell
Selecting ==
    /\ pc = "enter"
    /\ Top.row < SIZE
    /\ grid[<<Top.row, Top.col>>] = 0

\* the unused values that the placed cells do not forbid at cell c, by the
\* tests of the running program
LegalDomain(c) ==
    IF prog = P6
    THEN {v \in 1 .. TOTAL_CELLS : v \notin used /\ v \notin Forbidden(grid, c[1], c[2])}
    ELSE {v \in 1 .. TOTAL_CELLS : Candidate(grid, used, c[1], c[2], v)}

Unassigned == {c \in Cells(SIZE) : grid[c] = 0}

\* C11 as claimed: the cell chosen for assignment has the smallest legal
\* domain of all unassigned cells, ties going to the smaller row-major index.
C11_MinimumRemainingValues ==
    Selecting =>
        LET chosen == <<Top.row, Top.col>>
            size(c) == Cardinality(LegalDomain(c))
        IN  \A c \in Unassigned :
               \/ size(chosen) < size(c)
               \/ size(chosen) = size(c) /\ LinearIndex(chosen) <= LinearIndex(c)

\* C11 amended: the cell chosen for assignment is the unassigned cell of the
\* smallest row-major index, whatever the sizes of the domains: every cell
\* before the cell of an entered call is assigned, and the cells from it on
\* are unassigned except for the pre-placed one.
C11_RowMajorSelection ==
    (pc = "enter" /\ Top.row < SIZE) =>
        LET chosen == <<Top.row, Top.col>>
        IN  \A c \in Cells(SIZE) :
               /\ LinearIndex(c) < LinearIndex(chosen) => grid[c] # 0
               /\ LinearIndex(c) >= LinearIndex(chosen)
                     => grid[c] = InitialGrid(prog, SIZE)[c]

\* a cell is chosen although a later cell has strictly fewer legal values
C11_Witness ==
    /\ Selecting
    /\ Len(stack) > 1
    /\ \E c \in Unassigned :
          /\ LinearIndex(c) > LinearIndex(<<Top.row, Top.col>>)
          /\ Cardinality(LegalDomain(c)) < Cardinality(LegalDomain(<<Top.row, Top.col>>))

\* ------------------------------------------------------------------------
\* Early evaluation of the global predicates
\* ------------------------------------------------------------------------
PrimesAssigned(g) == \A p \in PrimeCells : g[p] # 0
TopRowAssigned(g) == \A p \in DOMAIN g : p[1] = 0 => g[p] # 0

\* the predicate has all its input cells assigned and does not hold
ParityFails(g) == PrimesAssigned(g) /\ PrimeSumOdd(g)
MedianFails(g) == TopRowAssigned(g) /\ OrderStatistic(g, C4_INDEX + 1) # C4_TARGET

GlobalFails(g) ==
    \/ prog \in {P3, P4} /\ ParityFails(g)
    \/ prog = P4 /\ MedianFails(g)

\* check_c3 / check_c4 pass while an input cell is 0 and say whether the
\* predicate holds once all are assigned
VerdictsDeferred ==
    /\ prog \in {P3, P4} => (check_c3(grid) <=> ~ParityFails(grid))
    /\ prog = P4 => (check_c4(grid) <=> ~MedianFails(grid))

\* no active call, and no call that has just returned, was entered on a grid
\* on which a complete predicate fails
NeverEnteredFailing ==
    /\ \A i \in 1 .. Len(stack) : ~GlobalFails(stack[i].grid0)
    /\ retFrame # NoFrame => ~GlobalFails(retFrame.grid0)

\* a placement that completes a predicate with a failing verdict is taken back
\* in the next step, in the same call
CutAtOnce ==
    (prog \in FindOne /\ pc = "placed" /\ GlobalFails(grid))
        => /\ pc' = "loop"
           /\ stack' = stack
           /\ grid' = Top.grid0
           /\ used' = Top.used0

\* C12: check_c3 and check_c4 pass while one of their input cells is 0 and give
\* their verdict once all are assigned; a placement that completes the inputs
\* with a failing verdict is unplaced at once without a recursive call; so
\* solve_grid is never entered with all PRIME_POSITIONS assigned and an odd
\* sum, nor (4_solve_grid.py) with row 0 full and a median other than 14.
C12_EarlyGlobalPruning ==
    /\ []VerdictsDeferred
    /\ []NeverEnteredFailing
    /\ [][CutAtOnce]_vars

\* the loop goes on after a value was taken back that completed a predicate
\* with a failing verdict
C12_Witness ==
    /\ prog \in {P3, P4}
    /\ pc = "loop"
    /\ Top.value # 0
    /\ grid[<<Top.row, Top.col>>] = 0
    /\ GlobalFails(place_grid(grid, Top.row, Top.col, Top.value))

====
